---- MODULE Spec2Model ----
(***************************************************************************)
(* Model of gemini_tester.py: the __main__ run (spec load, prompt build,   *)
(* prompt file, image generation) and generate_image_with_refs with the    *)
(* artifact namer _get_next_base_name and the interim/final writer.        *)
(*                                                                         *)
(* File names are sequences of tokens ("gemini_image", "_", one token per  *)
(* digit, "interim", "final", ".png", ...), so formatting and glob         *)
(* matching are computed on the text of the name.                          *)
(***************************************************************************)
EXTENDS Integers, Sequences, FiniteSets, TLC

VARIABLES dir, dirExists, promptFile, st, runs, deletes, maxAlloc, cfg

vars == <<dir, dirExists, promptFile, st, runs, deletes, maxAlloc, cfg>>

(* ------------------------------ bounds -------------------------------- *)

\* runs started and files deleted in a behaviour of Spec (one caller, run after run)
MaxCalls == 2
MaxDeletes == 1
\* the same for SpecCall (one caller, every kind of argument, response and directory)
CallRuns == 1
CallDeletes == 1
\* calls started in a behaviour of SpecConc (two callers on one directory)
ConcCalls == 2

Procs == {"A", "B"}

(* ------------------------- names and formatting ----------------------- *)

\* prefix = "gemini_image"
prefix == "gemini_image"

\* the minimum field width of {i:04d}
PadWidth == 4

\* i = 1, the first candidate of the scan
FirstCandidate == 1

\* output_dir: str = "outputs"
output_dir == "outputs"

DigitTok(d) == <<"0", "1", "2", "3", "4", "5", "6", "7", "8", "9">>[d + 1]

RECURSIVE Digits(_)
Digits(n) == IF n < 10 THEN <<DigitTok(n)>>
             ELSE Append(Digits(n \div 10), DigitTok(n % 10))

RECURSIVE ZeroPad(_, _)
ZeroPad(ds, w) == IF Len(ds) >= w THEN ds ELSE ZeroPad(<<"0">> \o ds, w)

\* f"{prefix}_{i:04d}"
BaseNameOf(i) == <<prefix, "_">> \o ZeroPad(Digits(i), PadWidth)

\* f"{base_name}_interim_{i}.png"
InterimName(base_name, i) == base_name \o <<"_", "interim", "_">> \o Digits(i) \o <<".png">>

\* f"{base_name}_final.png"
FinalName(base_name) == base_name \o <<"_", "final", ".png">>

\* str(out_dir / name)
PathOf(name) == <<output_dir, "/">> \o name

IsPrefix(s, t) == Len(s) <= Len(t) /\ SubSeq(t, 1, Len(s)) = s

IsSuffix(s, t) == Len(s) <= Len(t) /\ SubSeq(t, Len(t) - Len(s) + 1, Len(t)) = s

\* a glob that looks for the final image only
GlobFinalOnly(d, base_name) == {f \in DOMAIN d : f = base_name \o <<"_", "final", ".png">>}

\* out_dir.glob(f"{base_name}_*.png"): the entries whose name starts with
\* base_name + "_" and ends with ".png" (the star matches any text, also none)
Glob(d, base_name) ==
    {f \in DOMAIN d : /\ IsPrefix(base_name \o <<"_">>, f)
                      /\ IsSuffix(<<".png">>, f)
                      /\ Len(f) >= Len(base_name) + 2}

\* a scan that steps over a candidate
NextCandidateSkip(i) == i + 2

\* a scan that never moves on
NextCandidateStuck(i) == i

\* the next candidate of the scan: i += 1
NextCandidate(i) == i + 1

(* --------------------------- arguments -------------------------------- *)

\* output_base_name: str | None
NoneArg == [given |-> FALSE, name |-> <<>>]
StrArg(s) == [given |-> TRUE, name |-> s]

\* the truth value `output_base_name or ...` tests: None and "" are falsy
Truthy(o) == o.given /\ o.name # <<>>

BaseNameArgs ==
    {NoneArg, StrArg(<<>>), StrArg(BaseNameOf(1)), StrArg(<<"custom">>)}

(* ----------------------------- responses ------------------------------ *)

\* response.parts: parts with inline image data ("img") and parts without ("txt")
Responses ==
    { <<>>, <<"txt">>, <<"img">>, <<"txt", "img">>, <<"img", "img">>,
      <<"img", "txt", "img">>, <<"img", "img", "img">> }

RECURSIVE ImagesFrom(_, _)
\* [part.as_image() for part in response.parts if part.inline_data is not None];
\* an image is named by the position of its part in the response
ImagesFrom(parts, k) ==
    IF k > Len(parts) THEN <<>>
    ELSE IF parts[k] = "img" THEN <<k>> \o ImagesFrom(parts, k + 1)
    ELSE ImagesFrom(parts, k + 1)

ImagesOf(parts) == ImagesFrom(parts, 1)

\* images[1:] in place of images[:-1]
InterimsFromSecond(images) == SubSeq(images, 2, Len(images))

\* images[:-1]
Interims(images) == SubSeq(images, 1, Len(images) - 1)

\* images[-1]
Final(images) == images[Len(images)]

(* --------------------------- the directory ---------------------------- *)

\* a file's content is named by the run that wrote it; run 0 is whatever was
\* there before the first run, -r what a failed save of run r left behind
Old == 0

WriteFile(d, name, content) ==
    [f \in DOMAIN d \cup {name} |-> IF f = name THEN content ELSE d[f]]

RemoveFile(d, name) == [f \in DOMAIN d \ {name} |-> d[f]]

FilesOf(names) == [f \in names |-> Old]

\* directory contents a run may start from
InitDirs ==
    { FilesOf({}),
      FilesOf({FinalName(BaseNameOf(1))}),
      FilesOf({BaseNameOf(1) \o <<"_", ".png">>, InterimName(BaseNameOf(2), 1),
               FinalName(BaseNameOf(4))}),
      FilesOf({<<prefix, "_", "1", "_", "final", ".png">>,
               BaseNameOf(1) \o <<"_", "final", ".txt">>,
               BaseNameOf(1) \o <<"x", "_", "final", ".png">>}),
      FilesOf({FinalName(BaseNameOf(1) \o <<"_", "v2">>), <<"custom", "_", "final", ".png">>}) }

(* --------------------------- process state ---------------------------- *)

\* a caller that is not running.  pc, entry, run: where the caller is, how it came
\* in ("main" or "direct"), the number of its run; output_base_name, parts, images,
\* base_name, i (scan), idx (save loop), saved_paths: the locals of the code; err:
\* the exception that ended the run.  The rest records what the run has done:
\* requests issued, whether the text request returned, whether the namer chose
\* the name and the highest number handed out before, effects ("prompt", "mkdir",
\* "alloc", "png"), the files written with their images, the files overwritten
\* with their former content, the directory as first seen, and whether somebody
\* else changed the directory since.
Idle == [pc |-> "idle", entry |-> "none", run |-> 0,
         output_base_name |-> NoneArg, parts |-> <<>>, images |-> <<>>,
         base_name |-> <<>>,
         i |-> 0, idx |-> 0, saved_paths |-> <<>>, err |-> "none",
         textReqs |-> 0, imgReqs |-> 0, textOk |-> FALSE,
         allocated |-> FALSE, prevMax |-> 0,
         effects |-> {}, writes |-> <<>>, overwritten |-> {},
         dirBefore |-> FilesOf({}), disturbed |-> FALSE]

\* the steps from the first glob of a caller until the caller is done with the result
Naming == {"scan", "collect", "save", "returned", "raised"}

\* p (a caller, or "env") changes the directory: the callers that have looked at
\* it and are not done yet have had it changed under them
Disturb(s, p) ==
    [q \in Procs |-> IF q # p /\ s[q].pc \in Naming
                     THEN [s[q] EXCEPT !.disturbed = TRUE]
                     ELSE s[q]]

Raise(s, e) == [s EXCEPT !.pc = "raised", !.err = e]

(* ------------------------------- Init --------------------------------- *)

InitCommon ==
    /\ dirExists \in BOOLEAN
    /\ (~dirExists => dir = FilesOf({}))
    /\ promptFile = FALSE
    /\ st = [p \in Procs |-> Idle]
    /\ runs = 0
    /\ deletes = 0
    /\ maxAlloc = 0

\* one caller at a time (the documented single-writer use), run after run
Init ==
    /\ InitCommon
    /\ dir \in {FilesOf({}), FilesOf({FinalName(BaseNameOf(1))})}
    /\ cfg = [callers |-> {"A"}, maxRuns |-> MaxCalls, maxDeletes |-> MaxDeletes,
              args |-> {StrArg(<<>>), StrArg(BaseNameOf(1))},
              responses |-> {<<>>, <<"txt">>, <<"img">>, <<"img", "txt", "img">>}]

\* one caller, with every argument, response and directory of the model
InitCall ==
    /\ InitCommon
    /\ dir \in InitDirs
    /\ cfg = [callers |-> {"A"}, maxRuns |-> CallRuns, maxDeletes |-> CallDeletes,
              args |-> BaseNameArgs, responses |-> Responses]

\* one caller that lets _get_next_base_name choose, on every directory of the model
InitScan ==
    /\ InitCommon
    /\ dir \in InitDirs
    /\ cfg = [callers |-> {"A"}, maxRuns |-> CallRuns, maxDeletes |-> CallDeletes,
              args |-> {NoneArg, StrArg(<<>>)},
              responses |-> {<<"img">>, <<"img", "txt", "img">>}]

\* two callers on the same output directory
InitConc ==
    /\ InitCommon
    /\ dir \in {FilesOf({}), FilesOf({FinalName(BaseNameOf(1))})}
    /\ cfg = [callers |-> Procs, maxRuns |-> ConcCalls, maxDeletes |-> 0,
              args |-> {NoneArg, StrArg(BaseNameOf(1))},
              responses |-> {<<"txt">>, <<"img">>, <<"img", "img">>}]

(* ------------------------------ __main__ ------------------------------ *)

\* with open(f"abm-pack-{client_name}.json") as f: spec = json.load(f)
MainLoadSpec(p) ==
    /\ p \in cfg.callers
    /\ st[p].pc = "idle"
    /\ runs < cfg.maxRuns
    /\ runs' = runs + 1
    /\ \E ok \in BOOLEAN :
         st' = [st EXCEPT ![p] =
                  IF ok THEN [Idle EXCEPT !.pc = "specLoaded", !.entry = "main",
                                          !.run = runs + 1]
                  ELSE Raise([Idle EXCEPT !.entry = "main", !.run = runs + 1],
                             "FileError")]
    /\ UNCHANGED <<dir, dirExists, promptFile, deletes, maxAlloc, cfg>>

\* build_image_prompt: client.models.generate_content(...) is issued
BuildPromptRequest(p) ==
    /\ st[p].pc = "specLoaded"
    /\ st' = [st EXCEPT ![p].pc = "textWait", ![p].textReqs = @ + 1]
    /\ UNCHANGED <<dir, dirExists, promptFile, runs, deletes, maxAlloc, cfg>>

\* return response.text.strip()
BuildPromptReturn(p) ==
    /\ st[p].pc = "textWait"
    /\ st' = [st EXCEPT ![p].pc = "prompted", ![p].textOk = TRUE]
    /\ UNCHANGED <<dir, dirExists, promptFile, runs, deletes, maxAlloc, cfg>>

\* a failed text request answered with a prompt made up locally
BuildPromptFallback(p) ==
    /\ st[p].pc = "textWait"
    /\ st' = [st EXCEPT ![p].pc = "prompted"]
    /\ UNCHANGED <<dir, dirExists, promptFile, runs, deletes, maxAlloc, cfg>>

\* the text request raises: nothing in build_image_prompt or __main__ catches it
BuildPromptFail(p) ==
    /\ st[p].pc = "textWait"
    /\ st' = [st EXCEPT ![p] = Raise(@, "TextError")]
    /\ UNCHANGED <<dir, dirExists, promptFile, runs, deletes, maxAlloc, cfg>>

\* with open(f"{client_name}_image_prompt.txt", "w") as f: f.write(image_prompt),
\* then generate_image_with_refs(image_prompt, img1_path, img2_path)
MainWritePrompt(p) ==
    /\ st[p].pc = "prompted"
    /\ \E ok \in BOOLEAN :
         IF ok
         THEN /\ promptFile' = TRUE
              /\ st' = [st EXCEPT ![p].pc = "gen",
                                  ![p].effects = @ \cup {"prompt"},
                                  ![p].output_base_name = NoneArg]
         ELSE /\ promptFile' = promptFile
              /\ st' = [st EXCEPT ![p] = Raise(@, "FileError")]
    /\ UNCHANGED <<dir, dirExists, runs, deletes, maxAlloc, cfg>>

(* ---------------------- generate_image_with_refs ---------------------- *)

\* a caller other than __main__ calls generate_image_with_refs(prompt, ref1, ref2,
\* output_base_name = obn)
DirectCall(p, obn) ==
    /\ p \in cfg.callers
    /\ obn \in cfg.args
    /\ st[p].pc = "idle"
    /\ runs < cfg.maxRuns
    /\ runs' = runs + 1
    /\ st' = [st EXCEPT ![p] = [Idle EXCEPT !.pc = "gen", !.entry = "direct",
                                            !.run = runs + 1,
                                            !.output_base_name = obn]]
    /\ UNCHANGED <<dir, dirExists, promptFile, deletes, maxAlloc, cfg>>

\* Image.open(ref_image_path_1).convert("RGBA"), Image.open(ref_image_path_2)...
OpenRefs(p) ==
    /\ st[p].pc = "gen"
    /\ \E ok \in BOOLEAN :
         st' = [st EXCEPT ![p] = IF ok THEN [@ EXCEPT !.pc = "refs"]
                                 ELSE Raise(@, "FileError")]
    /\ UNCHANGED <<dir, dirExists, promptFile, runs, deletes, maxAlloc, cfg>>

\* client.models.generate_content(model=MODEL_ID, contents=[prompt, img1, img2], ...)
ImageRequest(p) ==
    /\ st[p].pc = "refs"
    /\ st' = [st EXCEPT ![p].pc = "imgWait", ![p].imgReqs = @ + 1]
    /\ UNCHANGED <<dir, dirExists, promptFile, runs, deletes, maxAlloc, cfg>>

\* the image request raises
ImageFail(p) ==
    /\ st[p].pc = "imgWait"
    /\ st' = [st EXCEPT ![p] = Raise(@, "ImageError")]
    /\ UNCHANGED <<dir, dirExists, promptFile, runs, deletes, maxAlloc, cfg>>

\* the response arrives with its parts
ImageReturn(p, parts) ==
    /\ st[p].pc = "imgWait"
    /\ parts \in cfg.responses
    /\ st' = [st EXCEPT ![p].pc = "mkdir", ![p].parts = parts]
    /\ UNCHANGED <<dir, dirExists, promptFile, runs, deletes, maxAlloc, cfg>>

\* out_dir.mkdir(parents=True, exist_ok=True);
\* base_name = output_base_name or _get_next_base_name(out_dir), up to the first glob
Mkdir(p) ==
    /\ st[p].pc = "mkdir"
    /\ dirExists' = TRUE
    /\ LET s1 == [st[p] EXCEPT !.effects =
                     IF dirExists THEN @ ELSE @ \cup {"mkdir"},
                                !.dirBefore = dir]
       IN st' = [st EXCEPT ![p] =
                   IF Truthy(s1.output_base_name)
                   THEN [s1 EXCEPT !.pc = "collect",
                                   !.base_name = s1.output_base_name.name]
                   ELSE [s1 EXCEPT !.pc = "scan", !.i = FirstCandidate,
                                   !.effects = @ \cup {"alloc"}]]
    /\ UNCHANGED <<dir, promptFile, runs, deletes, maxAlloc, cfg>>

\* a namer that hands out its first candidate without looking at the directory
ScanStepNoCheck(p) ==
    /\ st[p].pc = "scan"
    /\ st' = [st EXCEPT ![p].pc = "collect", ![p].base_name = BaseNameOf(st[p].i),
                        ![p].allocated = TRUE, ![p].prevMax = maxAlloc]
    /\ UNCHANGED <<dir, dirExists, promptFile, runs, deletes, maxAlloc, cfg>>

\* one turn of the while True loop of _get_next_base_name
ScanStep(p) ==
    /\ st[p].pc = "scan"
    /\ LET candidate == BaseNameOf(st[p].i)
       IN IF Glob(dir, candidate) = {}
          THEN st' = [st EXCEPT ![p].pc = "collect", ![p].base_name = candidate,
                                ![p].allocated = TRUE, ![p].prevMax = maxAlloc]
          ELSE st' = [st EXCEPT ![p].i = NextCandidate(@)]
    /\ UNCHANGED <<dir, dirExists, promptFile, runs, deletes, maxAlloc, cfg>>

\* images = [...]; if not images: raise RuntimeError(...); saved_paths = []
CollectImages(p) ==
    /\ st[p].pc = "collect"
    /\ LET images == ImagesOf(st[p].parts)
       IN st' = [st EXCEPT ![p] =
                   IF images = <<>> THEN Raise(@, "NoImage")
                   ELSE [@ EXCEPT !.pc = "save", !.images = images, !.idx = 1,
                                  !.saved_paths = <<>>]]
    /\ UNCHANGED <<dir, dirExists, promptFile, runs, deletes, maxAlloc, cfg>>

\* the highest sequence number allocated so far by a run that went on to write
Allocated(s) == IF s.allocated /\ s.i > maxAlloc THEN s.i ELSE maxAlloc

\* what one img.save(path) does to the caller and the directory
Saved(s, name, img) ==
    [s EXCEPT !.saved_paths = Append(@, PathOf(name)),
              !.writes = Append(@, <<name, img>>),
              !.effects = @ \cup {"png"},
              !.overwritten = IF name \in DOMAIN dir
                              THEN @ \cup {<<name, dir[name]>>} ELSE @]

\* for i, img in enumerate(images[:-1], start=1): img.save(interim_path); ...
SaveInterim(p) ==
    /\ st[p].pc = "save"
    /\ st[p].idx <= Len(Interims(st[p].images))
    /\ LET name == InterimName(st[p].base_name, st[p].idx)
           img == Interims(st[p].images)[st[p].idx]
       IN /\ dir' = WriteFile(dir, name, st[p].run)
          /\ st' = [Disturb(st, p) EXCEPT
                      ![p] = [Saved(st[p], name, img) EXCEPT !.idx = @ + 1]]
          /\ maxAlloc' = Allocated(st[p])
    /\ UNCHANGED <<dirExists, promptFile, runs, deletes, cfg>>

\* images[-1].save(final_path); saved_paths.append(...); return saved_paths
SaveFinal(p) ==
    /\ st[p].pc = "save"
    /\ st[p].idx > Len(Interims(st[p].images))
    /\ LET name == FinalName(st[p].base_name)
           img == Final(st[p].images)
       IN /\ dir' = WriteFile(dir, name, st[p].run)
          /\ st' = [Disturb(st, p) EXCEPT
                      ![p] = [Saved(st[p], name, img) EXCEPT !.pc = "returned"]]
          /\ maxAlloc' = Allocated(st[p])
    /\ UNCHANGED <<dirExists, promptFile, runs, deletes, cfg>>

\* a failed save that removes what the call had written
SaveFailCleanup(p) ==
    /\ st[p].pc = "save"
    /\ dir' = [f \in {g \in DOMAIN dir : dir[g] # st[p].run} |-> dir[f]]
    /\ st' = [Disturb(st, p) EXCEPT ![p] = Raise(st[p], "SaveError")]
    /\ UNCHANGED <<dirExists, promptFile, runs, deletes, maxAlloc, cfg>>

\* the save of the next image raises; whether the file it was writing is left
\* behind (truncated, content -run) is the image library's business
SaveFail(p) ==
    /\ st[p].pc = "save"
    /\ LET interim == st[p].idx <= Len(Interims(st[p].images))
           name == IF interim THEN InterimName(st[p].base_name, st[p].idx)
                   ELSE FinalName(st[p].base_name)
       IN \E left \in BOOLEAN :
            /\ dir' = IF left THEN WriteFile(dir, name, -st[p].run) ELSE dir
            /\ st' = [(IF left THEN Disturb(st, p) ELSE st) EXCEPT
                        ![p] = Raise(st[p], "SaveError")]
    /\ UNCHANGED <<dirExists, promptFile, runs, deletes, maxAlloc, cfg>>

\* the call is over (returned or raised): the caller may start another run
Exit(p) ==
    /\ st[p].pc \in {"returned", "raised"}
    /\ st' = [st EXCEPT ![p] = Idle]
    /\ UNCHANGED <<dir, dirExists, promptFile, runs, deletes, maxAlloc, cfg>>

(* ---------------------------- environment ----------------------------- *)

\* someone deletes an output file
Delete(f) ==
    /\ deletes < cfg.maxDeletes
    /\ f \in DOMAIN dir
    /\ IsSuffix(<<".png">>, f)
    /\ deletes' = deletes + 1
    /\ dir' = RemoveFile(dir, f)
    /\ st' = Disturb(st, "env")
    /\ UNCHANGED <<dirExists, promptFile, runs, maxAlloc, cfg>>

(* --------------------------- specifications --------------------------- *)

Next ==
    \/ \E p \in Procs : MainLoadSpec(p)
    \/ \E p \in Procs : BuildPromptRequest(p)
    \/ \E p \in Procs : BuildPromptReturn(p)
    \/ \E p \in Procs : BuildPromptFail(p)
    \/ \E p \in Procs : MainWritePrompt(p)
    \/ \E p \in Procs, obn \in BaseNameArgs : DirectCall(p, obn)
    \/ \E p \in Procs : OpenRefs(p)
    \/ \E p \in Procs : ImageRequest(p)
    \/ \E p \in Procs : ImageFail(p)
    \/ \E p \in Procs, parts \in Responses : ImageReturn(p, parts)
    \/ \E p \in Procs : Mkdir(p)
    \/ \E p \in Procs : ScanStep(p)
    \/ \E p \in Procs : CollectImages(p)
    \/ \E p \in Procs : SaveInterim(p)
    \/ \E p \in Procs : SaveFinal(p)
    \/ \E p \in Procs : SaveFail(p)
    \/ \E p \in Procs : Exit(p)
    \/ \E f \in DOMAIN dir : Delete(f)

Spec == Init /\ [][Next]_vars

SpecCall == InitCall /\ [][Next]_vars

\* the Python interpreter keeps running a loop it has entered: a caller inside
\* _get_next_base_name takes its next turn
SpecScan == InitScan /\ [][Next]_vars /\ \A p \in Procs : WF_vars(ScanStep(p))

\* callers of generate_image_with_refs only, nobody deleting
NextConc ==
    \/ \E p \in Procs, obn \in BaseNameArgs : DirectCall(p, obn)
    \/ \E p \in Procs : OpenRefs(p)
    \/ \E p \in Procs : ImageRequest(p)
    \/ \E p \in Procs : ImageFail(p)
    \/ \E p \in Procs, parts \in Responses : ImageReturn(p, parts)
    \/ \E p \in Procs : Mkdir(p)
    \/ \E p \in Procs : ScanStep(p)
    \/ \E p \in Procs : CollectImages(p)
    \/ \E p \in Procs : SaveInterim(p)
    \/ \E p \in Procs : SaveFinal(p)
    \/ \E p \in Procs : SaveFail(p)
    \/ \E p \in Procs : Exit(p)

SpecConc == InitConc /\ [][NextConc]_vars

(* ------------------------- words of the claims ------------------------ *)

Callers == cfg.callers

PngNames(d) == {f \in DOMAIN d : IsSuffix(<<".png">>, f)}

\* the caller got its base name from _get_next_base_name
Named(p) == st[p].allocated

\* sequence number k is free in d: nothing there matches gemini_image_{k:04d}_*.png
Free(d, k) == Glob(d, BaseNameOf(k)) = {}

\* the lowest free sequence number >= 1
LowestFree(d) ==
    CHOOSE k \in 1..(Cardinality(DOMAIN d) + 1) :
        Free(d, k) /\ \A j \in 1..(k - 1) : ~Free(d, j)

\* the names matching gemini_image_*_*.png
SeqFiles(d) ==
    {f \in DOMAIN d : /\ IsPrefix(<<prefix, "_">>, f)
                      /\ IsSuffix(<<".png">>, f)
                      /\ \E j \in 3..(Len(f) - 1) : f[j] = "_"}

SetOf(seq) == {seq[j] : j \in 1..Len(seq)}

(* ------------------------------- C1 ----------------------------------- *)

\* C1: whenever _get_next_base_name has returned and the directory has not
\* changed since the scan began, the base name is gemini_image_{k:04d} for the
\* lowest k >= 1 with no file matching {candidate}_*.png; a directory holding only
\* gemini_image_0001_final.png gives gemini_image_0002, an empty one gemini_image_0001.
C1_LowestFreeName ==
    \A p \in Callers :
        (st[p].pc = "collect" /\ Named(p) /\ ~st[p].disturbed) =>
            /\ st[p].base_name = BaseNameOf(LowestFree(dir))
            /\ Glob(dir, st[p].base_name) = {}
            /\ (DOMAIN dir = {} =>
                  st[p].base_name = <<"gemini_image", "_", "0", "0", "0", "1">>)
            /\ (DOMAIN dir = {<<"gemini_image", "_", "0", "0", "0", "1", "_", "final", ".png">>}
                  => st[p].base_name = <<"gemini_image", "_", "0", "0", "0", "2">>)

\* the scan passed occupied numbers 1 and 2 and returned gemini_image_0003
C1_Witness ==
    \E p \in Callers :
        /\ st[p].pc = "collect" /\ Named(p) /\ ~st[p].disturbed
        /\ st[p].base_name = <<"gemini_image", "_", "0", "0", "0", "3">>
        /\ FinalName(BaseNameOf(4)) \in DOMAIN dir

(* ------------------------------- C10 ---------------------------------- *)

\* the candidate under examination is within the bound and every number below
\* it is taken
C10_ScanBound ==
    \A p \in Callers :
        (st[p].pc = "scan" /\ ~st[p].disturbed) =>
            /\ st[p].i >= 1
            /\ st[p].i <= Cardinality(SeqFiles(dir)) + 1
            /\ \A j \in 1..(st[p].i - 1) : ~Free(dir, j)

\* the scan starts at 1, moves from i to i + 1 and returns the candidate it is at
C10_ScanOrder ==
    \A p \in Callers :
        /\ (st[p].pc # "scan" /\ st'[p].pc = "scan") => st'[p].i = 1
        /\ (st[p].pc = "scan" /\ st'[p].pc = "scan") =>
              st'[p].i \in {st[p].i, st[p].i + 1}
        /\ (st[p].pc = "scan" /\ st'[p].pc # "scan") =>
              /\ st'[p].pc = "collect"
              /\ st'[p].i = st[p].i
              /\ st'[p].base_name = BaseNameOf(st[p].i)

\* a scan that has begun ends
C10_ScanEnds == \A p \in Procs : (st[p].pc = "scan") ~> (st[p].pc # "scan")

\* C10: _get_next_base_name terminates: the scan ends, it examines candidates
\* 1, 2, 3, ... in increasing order without skipping any, and, while the
\* directory is not modified during the scan, it never examines a candidate above
\* (number of files matching gemini_image_*_*.png) + 1.
C10_ScanTerminates == [](C10_ScanBound) /\ [][C10_ScanOrder]_vars /\ C10_ScanEnds

\* an undisturbed scan stopped at its bound after passing three occupied numbers
C10_Witness ==
    \E p \in Callers :
        /\ st[p].pc = "collect" /\ Named(p) /\ ~st[p].disturbed
        /\ st[p].i = Cardinality(SeqFiles(dir)) + 1
        /\ st[p].i = 3

(* ------------------------------- C2 ----------------------------------- *)

\* C2: a call that returns with N >= 1 images has written exactly N files, in
\* response order: image i (1 <= i <= N-1) to {base_name}_interim_{i}.png and the
\* last image to {base_name}_final.png, and returns exactly those N paths, interim
\* paths first and the final path last; with N = 1 only the final file is written.
C2_WritesInterimsThenFinal ==
    \A p \in Callers :
        st[p].pc = "returned" =>
            LET N == Len(st[p].images)
                b == st[p].base_name
            IN /\ N >= 1
               /\ Len(st[p].writes) = N
               /\ Len(st[p].saved_paths) = N
               /\ \A j \in 1..(N - 1) :
                     /\ st[p].writes[j] = <<InterimName(b, j), st[p].images[j]>>
                     /\ st[p].saved_paths[j] = PathOf(InterimName(b, j))
               /\ st[p].writes[N] = <<FinalName(b), st[p].images[N]>>
               /\ st[p].saved_paths[N] = PathOf(FinalName(b))
               /\ (N = 1 => \A w \in SetOf(st[p].writes) : "interim" \notin SetOf(w[1]))
               /\ (~st[p].disturbed =>
                     \A w \in SetOf(st[p].writes) :
                         w[1] \in DOMAIN dir /\ dir[w[1]] = st[p].run)

\* three images went to gemini_image_0001_interim_1, _interim_2 and _final
C2_Witness ==
    \E p \in Callers :
        /\ st[p].pc = "returned"
        /\ st[p].images = <<1, 2, 3>>
        /\ st[p].saved_paths =
             << <<"outputs", "/", "gemini_image", "_", "0", "0", "0", "1",
                  "_", "interim", "_", "1", ".png">>,
                <<"outputs", "/", "gemini_image", "_", "0", "0", "0", "1",
                  "_", "interim", "_", "2", ".png">>,
                <<"outputs", "/", "gemini_image", "_", "0", "0", "0", "1",
                  "_", "final", ".png">> >>

(* ------------------------------- C3 ----------------------------------- *)

\* C3: when the response carries no image the call raises the "No image returned"
\* error and nothing of the persist step has happened by then: the output
\* directory was not created, no base name was allocated, no PNG was written.
C3_NoImageBeforePersist ==
    \A p \in Callers :
        (st[p].pc = "raised" /\ st[p].err = "NoImage") =>
            st[p].effects \cap {"mkdir", "alloc", "png"} = {}

(* ------------------------------- C7 ----------------------------------- *)

\* C7: when the save of the k-th image fails, the call raises (it returns no
\* paths), nothing of the batch beyond image k-1 has been written, and the k-1
\* files written before are still there with their content.
C7_SaveFailureKeepsWritten ==
    \A p \in Callers :
        (st[p].pc = "raised" /\ st[p].err = "SaveError") =>
            LET k == st[p].idx
                b == st[p].base_name
            IN /\ k \in 1..Len(st[p].images)
               /\ Len(st[p].writes) = k - 1
               /\ \A j \in 1..(k - 1) :
                     st[p].writes[j] = <<InterimName(b, j), st[p].images[j]>>
               /\ (~st[p].disturbed =>
                     /\ \A j \in 1..(k - 1) :
                           /\ InterimName(b, j) \in DOMAIN dir
                           /\ dir[InterimName(b, j)] = st[p].run
                     /\ \A f \in DOMAIN dir :
                           dir[f] = st[p].run =>
                               \E j \in 1..(k - 1) : f = InterimName(b, j))

\* the save of the third image failed with two interim files on disk
C7_Witness ==
    \E p \in Callers :
        /\ st[p].pc = "raised" /\ st[p].err = "SaveError" /\ ~st[p].disturbed
        /\ st[p].idx = 3
        /\ {f \in DOMAIN dir : dir[f] = st[p].run} =
             {InterimName(st[p].base_name, 1), InterimName(st[p].base_name, 2)}

(* ------------------------------- C4 ----------------------------------- *)

\* C4: over any sequence of calls on one directory, with or without
\* output_base_name, no call writes to a path that an earlier batch wrote and that
\* still exists (no two batches share a base name).
C4_NoSharedBaseName ==
    \A p \in Callers :
        \A o \in st[p].overwritten : o[2] < 1

(* ------------------------------- C5 ----------------------------------- *)

\* C5 as claimed: over allocate-then-write runs interleaved with deletions, every
\* allocated sequence number is strictly greater than every number allocated
\* before it, and a base name is never returned while a file bearing it exists.
C5_StrictlyMonotonic ==
    \A p \in Callers :
        Named(p) =>
            /\ st[p].i > st[p].prevMax
            /\ (st[p].pc = "collect" => Glob(dir, st[p].base_name) = {})

\* C5 as amended: as long as no file has been deleted, every allocated sequence
\* number is strictly greater than every number allocated before it by a run that
\* wrote a file; whether or not files were deleted, a base name is never
\* returned while a file bearing it exists.
C5_MonotonicWithoutDeletion ==
    \A p \in Callers :
        Named(p) =>
            /\ (deletes = 0 => st[p].i > st[p].prevMax)
            /\ (st[p].pc = "collect" => Glob(dir, st[p].base_name) = {})

\* a second allocation, after a run that wrote under number prevMax
C5_Witness ==
    \E p \in Callers :
        /\ Named(p) /\ st[p].pc = "collect"
        /\ deletes = 0
        /\ st[p].prevMax >= 1
        /\ Glob(dir, BaseNameOf(st[p].prevMax)) # {}

(* ------------------------------- C6 ----------------------------------- *)

\* C6: when a call returns, the set of paths it returns is exactly the set of
\* *.png files that are in the output directory after the call and were not
\* there before it, whether the base name was allocated or supplied.
C6_ReturnsNewFiles ==
    \A p \in Callers :
        (st[p].pc = "returned" /\ ~st[p].disturbed) =>
            SetOf(st[p].saved_paths) =
                {PathOf(f) : f \in PngNames(dir) \ DOMAIN st[p].dirBefore}

(* ------------------------------- C8 ----------------------------------- *)

\* C8: a run of __main__ issues at most one text request and at most one image
\* request, the image request only after the text request has returned, and
\* when the text request fails the run ends with that error and has written no
\* prompt file, issued no image request, created no directory, written no PNG.
C8_SequentialFailFast ==
    \A p \in Callers :
        st[p].entry = "main" =>
            /\ st[p].textReqs <= 1
            /\ st[p].imgReqs <= 1
            /\ (st[p].imgReqs = 1 => st[p].textReqs = 1 /\ st[p].textOk)
            /\ (st[p].pc = "textWait" => st[p].imgReqs = 0 /\ st[p].effects = {})
            /\ (st[p].err = "TextError" =>
                  /\ st[p].pc = "raised"
                  /\ st[p].textReqs = 1
                  /\ st[p].imgReqs = 0
                  /\ st[p].effects = {}
                  /\ st[p].writes = <<>>
                  /\ (st[p].run = 1 => ~promptFile))

\* the text request of a run failed and the run is over
C8_Witness ==
    \E p \in Callers :
        /\ st[p].entry = "main" /\ st[p].pc = "raised" /\ st[p].err = "TextError"
        /\ st[p].textReqs = 1

(* ------------------------------- C9 ----------------------------------- *)

\* C9: a caller that got its base name from _get_next_base_name overwrites a file
\* of another batch only if another caller wrote to the directory between this
\* caller's scan and its save; with two callers at once that does happen: both
\* get the same base name and one final image replaces the other.
C9_OverwriteOnlyWhenRaced ==
    \A p \in Callers :
        (Named(p) /\ \E o \in st[p].overwritten : o[2] >= 1) => st[p].disturbed

\* both callers were handed the same base name and one replaced the other's final
C9_Witness ==
    \E p, q \in Callers :
        /\ p # q
        /\ Named(p) /\ Named(q)
        /\ st[p].base_name = st[q].base_name
        /\ st[q].pc = "returned" /\ st[p].pc = "returned"
        /\ <<FinalName(st[q].base_name), st[q].run>> \in st[p].overwritten

====
